---- MODULE Spec2Model ----
(***************************************************************************)
(* A model of scripts/consul-scripting-helper.py: the distributed lock of  *)
(* locked_action and the optimistic counter of counterIncrement, run by    *)
(* independent client processes against one linearizable key/value store   *)
(* with sessions, CAS writes and blocking reads.                           *)
(*                                                                         *)
(* Optional values (Python's None) are sequences of length 0 or 1: None is *)
(* <<>> and a present value v is <<v>>.                                    *)
(***************************************************************************)
EXTENDS Integers, Sequences, FiniteSets, TLC

\* ------------------------------------------------------------------ bounds

\* Number of concurrent locked_action callers.
NumClients == 2
\* The size of a run: the number of clients, plus the number of exceptions the
\* environment raises in it (transient errors of store calls, errors of f,
\* termination signals), plus the number of steps of the external actor, is at
\* most MaxLoad.
MaxLoad == 4

Clients == 1..NumClients

\* ---------------------------------------------------------------- constants

None == <<>>

Some(v) == <<v>>

\* 0x2ddccbc058a50c18 as its two 32-bit words (high, low).
lockFlagValue == <<769444800, 1487211544>>

\* The flags of a record written by a plain put (no flags given): 0.
plainFlags == <<0, 0>>

\* The TTL lockedCommand passes to locked_action.
session_ttl == Some(10)

lockKey == "key/.lock"

\* The key counterIncrement is called on.
counterKey == "counter"

\* The key waitUntilValue is called on.
waitKey == "flag"

\* The nodes that run an instance of the service waitUntilService is called on.
Nodes == {"n1", "n2"}

VARIABLES
  kv,              \* the store: key -> None or Some(record)
  raftIndex,       \* the store's index, raised by every write
  sessions,        \* the store's live sessions
  pc,              \* locked_action: where each client is
  session,         \* locked_action: local `session`
  data,            \* locked_action: local `data` (what is read of it)
  acquired_index,  \* locked_action: local `acquired_index`
  exc,             \* locked_action: the exception in flight (or the one raised to the caller)
  fexc,            \* what the latest call of f raised ("none": it returned or has not run)
  attempts,        \* sessions this call has created so far
  calls,           \* how many times this call has invoked f
  faults,          \* exceptions the environment has raised so far
  tampered,        \* the external actor touched the lock key while this client held it
  opSteps,         \* steps the external actor has taken
  cpc,             \* counterIncrement: where each client is
  integer_to_put,  \* counterIncrement: local `integer_to_put`
  cas_index,       \* counterIncrement: local `cas_index`
  cexc,            \* counterIncrement: the exception that ended the call
  tries,           \* counterIncrement: rounds of the loop started so far
  wpc,             \* waitUntilValue: where the call is
  target_value,    \* waitUntilValue: local `target_value`
  index,           \* waitUntilValue: local `index`
  reads,           \* waitUntilValue: gets that have returned so far
  spc,             \* waitUntilService: where the call is
  wait_for_index_change,        \* waitUntilService: local `wait_for_index_change`
  node,                         \* waitUntilService: local `node`
  last_max_check_modify_index,  \* waitUntilService: local `last_max_check_modify_index`
  sindex,          \* waitUntilService: local `index`
  checks,          \* the store's health checks of the service's instances, by node
  sreads,          \* waitUntilService: health reads that have returned so far
  first_max,       \* waitUntilService: max_check_modify_index of its first read
  age,             \* seconds since each client's session was created or last renewed
  waited,          \* seconds each client's blocking get of the lock key has waited
  p,               \* run_command_with_ttl_refresh: local `p`, the child it started
  running          \* the child processes (shell commands) that have not exited

storeVars == <<kv, raftIndex, sessions>>

\* The environment may raise another exception or take another step.
MayDisturb == NumClients + faults + opSteps < MaxLoad

localVars == <<pc, session, data, acquired_index, exc, fexc, attempts, calls>>

counterVars == <<cpc, integer_to_put, cas_index, cexc, tries>>

valueVars == <<wpc, target_value, index, reads>>

\* The variables of the commands other than lockedCommand and counterIncrement.
serviceVars == <<spc, wait_for_index_change, node, last_max_check_modify_index, sindex, checks,
                 sreads, first_max>>

\* The store's session timers and the time the blocking gets of locked_action take.
timeVars == <<age, waited>>

commandVars == <<p, running>>

restVars == <<valueVars, serviceVars, timeVars, commandVars>>

vars == <<kv, raftIndex, sessions, pc, session, data, acquired_index, exc,
          fexc, attempts, calls, faults, tampered, opSteps, cpc, integer_to_put, cas_index,
          cexc, tries, wpc, target_value, index, reads, spc, wait_for_index_change, node,
          last_max_check_modify_index, sindex, checks, sreads, first_max, age, waited,
          p, running>>

Keys == {lockKey, counterKey, waitKey}

\* ------------------------------------------------------------------- store

\* get(key): the record's ModifyIndex and the record, or the store's index and None.
KvGet(key) ==
  IF kv[key] = None THEN <<raftIndex, None>> ELSE <<kv[key][1].ModifyIndex, kv[key]>>

\* put(key, value, acquire=s, flags): granted when s is live and no other session holds the key.
AcquireGranted(key, s) ==
  /\ s \in sessions
  /\ \/ kv[key] = None
     \/ kv[key][1].Session = None
     \/ kv[key][1].Session = Some(s)

KvAfterPut(key, value, flags, sess) ==
  [kv EXCEPT ![key] = Some([Value |-> value, Flags |-> flags, Session |-> sess,
                            ModifyIndex |-> raftIndex + 1])]

\* delete(key, cas=i): succeeds only if the record is there with ModifyIndex = i.
DeleteCasMatches(key, i) ==
  /\ kv[key] # None
  /\ kv[key][1].ModifyIndex = i

\* The store after session s is destroyed or invalidated: the keys it holds are released
\* (the record stays, without its session, at a new index).
HeldBy(s) == {k \in Keys : kv[k] # None /\ kv[k][1].Session = Some(s)}

KvAfterSessionEnd(s) ==
  [k \in Keys |-> IF k \in HeldBy(s)
                    THEN Some([kv[k][1] EXCEPT !.Session = None, !.ModifyIndex = raftIndex + 1])
                    ELSE kv[k]]

IndexAfterSessionEnd(s) == IF HeldBy(s) = {} THEN raftIndex ELSE raftIndex + 1

SessionDestroyed(s) ==
  /\ sessions' = sessions \ {s}
  /\ kv' = KvAfterSessionEnd(s)
  /\ raftIndex' = IndexAfterSessionEnd(s)

\* ------------------------------------------------------------ locked_action

StoreErrors == {"ConnectionError", "ConsulException"}

\* Retried with a handler that catches and retries every exception.
RetriedAll(e) == TRUE

\* The exceptions the outer try of locked_action catches and retries.
Retried(e) == e \in StoreErrors

\* What locked_action reads of the record a get returned (lines 95-98): whether there
\* is one, its Flags, and whether it has a Session.
Read(d) ==
  IF d = None THEN None ELSE Some([Flags |-> d[1].Flags, HasSession |-> d[1].Session # None])

\* Check without the flag test of lines 96-97.
CheckWithoutFlags(d) == IF d # None /\ d[1].HasSession THEN "get" ELSE "put"

\* Lines 95-103: what follows a get that returned d.
Check(d) ==
  IF d # None /\ d[1].Flags # lockFlagValue THEN "raise"
  ELSE IF d # None /\ d[1].HasSession THEN "get"
  ELSE "put"

\* AfterPut with the put's result ignored.
AfterPutIgnoringResult(ok) == "get_acquired_index"

\* Line 85: the acquisition loop ends when the put reported success.
AfterPut(ok) == IF ok THEN "get_acquired_index" ELSE "get"

\* The outer handlers (lines 140-155) once the outer finally has run for exception e.
AfterHandlers(e) == IF Retried(e) THEN "sleep" ELSE "raised"

\* What stays in `exc` once the handlers have run: a retried exception is gone.
ExcAfterHandlers(e) == IF Retried(e) THEN "none" ELSE e

\* Exception e leaves the outer try body of client c (lines 78-139): the outer finally
\* destroys the session if the call still has one.
Unwind(c, e) ==
  IF session[c] = None
    THEN /\ pc' = [pc EXCEPT ![c] = AfterHandlers(e)]
         /\ exc' = [exc EXCEPT ![c] = ExcAfterHandlers(e)]
    ELSE /\ pc' = [pc EXCEPT ![c] = "finally_destroy"]
         /\ exc' = [exc EXCEPT ![c] = e]

\* Line 80.
Create(c) ==
  /\ pc[c] = "create"
  /\ LET s == <<c, attempts[c] + 1>> IN
       /\ sessions' = sessions \cup {s}
       /\ session' = [session EXCEPT ![c] = Some(s)]
  /\ attempts' = [attempts EXCEPT ![c] = @ + 1]
  /\ pc' = [pc EXCEPT ![c] = "get"]
  /\ age' = [age EXCEPT ![c] = 0]
  /\ UNCHANGED <<kv, raftIndex, data, acquired_index, exc, fexc, calls, faults, tampered,
                 opSteps, counterVars, valueVars, serviceVars, waited, commandVars>>

\* Lines 95-100 applied to the get's result d.
Checked(c, d) ==
  IF Check(d) = "raise"
    THEN Unwind(c, "Exception")
    ELSE /\ pc' = [pc EXCEPT ![c] = Check(d)]
         /\ UNCHANGED exc

\* Line 90: the blocking get returns, on a change past `index` or when its wait of
\* 0.8 * session_ttl runs out, with the key's current state either way; so the model
\* does not keep the local `index`.
Get(c) ==
  /\ pc[c] = "get"
  /\ data' = [data EXCEPT ![c] = Read(KvGet(lockKey)[2])]
  /\ IF session_ttl # None
       THEN /\ pc' = [pc EXCEPT ![c] = "renew"]
            /\ UNCHANGED exc
       ELSE Checked(c, Read(KvGet(lockKey)[2]))
  /\ waited' = [waited EXCEPT ![c] = 0]
  /\ UNCHANGED <<storeVars, session, acquired_index, fexc, attempts, calls, faults, tampered,
                 opSteps, counterVars, valueVars, serviceVars, age, commandVars>>

\* Line 94, then lines 95-100. Renewing a session the store no longer has is an error
\* of the store.
Renew(c) ==
  /\ pc[c] = "renew"
  /\ IF session[c][1] \in sessions
       THEN /\ Checked(c, data[c])
            /\ age' = [age EXCEPT ![c] = 0]
       ELSE /\ Unwind(c, "ConsulException")
            /\ UNCHANGED age
  /\ UNCHANGED <<storeVars, session, data, acquired_index, fexc, attempts, calls,
                 faults, tampered, opSteps, counterVars, valueVars, serviceVars, waited,
                 commandVars>>

\* Line 103.
Put(c) ==
  /\ pc[c] = "put"
  /\ LET ok == AcquireGranted(lockKey, session[c][1]) IN
       /\ IF ok
            THEN /\ kv' = KvAfterPut(lockKey, <<"host", c>>, lockFlagValue, session[c])
                 /\ raftIndex' = raftIndex + 1
            ELSE UNCHANGED <<kv, raftIndex>>
       /\ pc' = [pc EXCEPT ![c] = AfterPut(ok)]
  /\ tampered' = [tampered EXCEPT ![c] = FALSE]
  /\ UNCHANGED <<sessions, session, data, acquired_index, exc, fexc, attempts, calls,
                 faults, opSteps, counterVars, restVars>>

\* Lines 110-115: read the acquisition index, then call f.
GetAcquiredIndex(c) ==
  /\ pc[c] = "get_acquired_index"
  /\ acquired_index' = [acquired_index EXCEPT ![c] = Some(KvGet(lockKey)[1])]
  /\ calls' = [calls EXCEPT ![c] = @ + 1]
  /\ fexc' = [fexc EXCEPT ![c] = "none"]
  /\ pc' = [pc EXCEPT ![c] = "f"]
  /\ UNCHANGED <<storeVars, session, data, exc, attempts, faults, tampered, opSteps,
                 counterVars, restVars>>

\* Lines 115-117: f returns; the return is pending while the inner finally runs.
FReturn(c) ==
  /\ pc[c] = "f"
  /\ pc' = [pc EXCEPT ![c] = "delete"]
  /\ UNCHANGED <<storeVars, session, data, acquired_index, exc, fexc, attempts, calls,
                 faults, tampered, opSteps, counterVars, restVars>>

\* What f may raise: an error of its own, or a store error of a store call it makes
\* (lockedCommand's f renews the session, line 173).
FErrors == {"ActionError"} \cup StoreErrors

\* AfterFRaise with the delete run only when f returns.
AfterFRaiseSkippingDelete == "destroy"

\* Lines 118-121: an exception of f is logged and re-raised, and the inner finally
\* runs: its first call is the delete of line 132.
AfterFRaise == "delete"

\* Lines 118-120: f raises e.
FRaise(c, e) ==
  /\ pc[c] = "f"
  /\ MayDisturb
  /\ faults' = faults + 1
  /\ pc' = [pc EXCEPT ![c] = AfterFRaise]
  /\ exc' = [exc EXCEPT ![c] = e]
  /\ fexc' = [fexc EXCEPT ![c] = e]
  /\ UNCHANGED <<storeVars, session, data, acquired_index, attempts, calls,
                 tampered, opSteps, counterVars, restVars>>

\* Lines 132-136.
Delete(c) ==
  /\ pc[c] = "delete"
  /\ IF DeleteCasMatches(lockKey, acquired_index[c][1])
       THEN /\ kv' = [kv EXCEPT ![lockKey] = None]
            /\ raftIndex' = raftIndex + 1
            /\ pc' = [pc EXCEPT ![c] = "destroy"]
            /\ UNCHANGED exc
       ELSE /\ UNCHANGED <<kv, raftIndex>>
            /\ Unwind(c, "Exception")
  /\ UNCHANGED <<sessions, session, data, acquired_index, fexc, attempts, calls,
                 faults, tampered, opSteps, counterVars, restVars>>

\* What leaves the inner try/finally (lines 113-139) after line 139: the pending
\* return, or the pending exception, which the outer handlers then see.
AfterInnerFinally(e) == IF e = "none" THEN "returned" ELSE AfterHandlers(e)

\* Lines 138-139.
Destroy(c) ==
  /\ pc[c] = "destroy"
  /\ SessionDestroyed(session[c][1])
  /\ session' = [session EXCEPT ![c] = None]
  /\ pc' = [pc EXCEPT ![c] = AfterInnerFinally(exc[c])]
  /\ exc' = [exc EXCEPT ![c] = ExcAfterHandlers(exc[c])]
  /\ UNCHANGED <<data, acquired_index, fexc, attempts, calls, faults, tampered, opSteps,
                 counterVars, restVars>>

\* Lines 148-154: the outer finally with a session left.
FinallyDestroy(c) ==
  /\ pc[c] = "finally_destroy"
  /\ SessionDestroyed(session[c][1])
  /\ session' = [session EXCEPT ![c] = None]
  /\ pc' = [pc EXCEPT ![c] = AfterHandlers(exc[c])]
  /\ exc' = [exc EXCEPT ![c] = ExcAfterHandlers(exc[c])]
  /\ UNCHANGED <<data, acquired_index, fexc, attempts, calls, faults, tampered, opSteps,
                 counterVars, restVars>>

\* Line 155, then the next round of the outer loop (line 77).
Sleep(c) ==
  /\ pc[c] = "sleep"
  /\ pc' = [pc EXCEPT ![c] = "create"]
  /\ UNCHANGED <<storeVars, session, data, acquired_index, exc, fexc, attempts, calls,
                 faults, tampered, opSteps, counterVars, restVars>>

\* The store calls of locked_action itself, by the place of the call.
StoreCalls == {"create", "get", "renew", "put", "get_acquired_index", "delete", "destroy",
               "finally_destroy"}

\* Exception e is raised at client c's current place: by a store call in the outer
\* try body (caught at lines 140-147 after the outer finally), or by the destroy of the
\* outer finally itself (line 153), which no handler covers.
RaisedAt(c, e) ==
  IF pc[c] = "finally_destroy"
    THEN /\ pc' = [pc EXCEPT ![c] = "raised"]
         /\ exc' = [exc EXCEPT ![c] = e]
    ELSE Unwind(c, e)

\* A store call of locked_action fails with a transient error (the call has no effect).
StoreError(c, e) ==
  /\ pc[c] \in StoreCalls
  /\ MayDisturb
  /\ faults' = faults + 1
  /\ RaisedAt(c, e)
  /\ UNCHANGED <<storeVars, session, data, acquired_index, fexc, attempts, calls,
                 tampered, opSteps, counterVars, restVars>>

\* Line 338: SIGTERM raises SystemExit at the client's current place. Inside f the
\* inner finally runs first (line 121).
Terminate(c) ==
  /\ pc[c] \notin {"returned", "raised"}
  /\ MayDisturb
  /\ faults' = faults + 1
  /\ IF pc[c] = "f"
       THEN /\ pc' = [pc EXCEPT ![c] = "delete"]
            /\ exc' = [exc EXCEPT ![c] = "SystemExit"]
       ELSE RaisedAt(c, "SystemExit")
  /\ UNCHANGED <<storeVars, session, data, acquired_index, fexc, attempts, calls,
                 tampered, opSteps, counterVars, restVars>>

\* ------------------------------------------------------------------- time

\* WaitSeconds with the get waiting for the whole TTL.
WaitWholeTtl(ttl) == ttl[1]

\* Line 89: wait_seconds = session_ttl * 0.8.
WaitSeconds(ttl) == (ttl[1] * 8) \div 10

\* The store calls that return at once; the blocking get of line 90 returns within
\* wait_seconds.
InstantCalls == StoreCalls \ {"get"}

\* Client c has a session that the store still has.
SessionLive(c) == session[c] # None /\ session[c][1] \in sessions

\* One second passes: no client is inside a call that returns at once, and no blocking
\* get has used up its wait time. The timers of the live sessions run up to the TTL.
Tick ==
  /\ \A c \in Clients : pc[c] \notin InstantCalls
  /\ \A c \in Clients : pc[c] = "get" => waited[c] < WaitSeconds(session_ttl)
  /\ age' = [c \in Clients |->
               IF SessionLive(c) /\ age[c] < session_ttl[1] THEN age[c] + 1 ELSE age[c]]
  /\ waited' = [c \in Clients |-> IF pc[c] = "get" THEN waited[c] + 1 ELSE waited[c]]
  /\ UNCHANGED <<storeVars, localVars, faults, tampered, opSteps, counterVars, valueVars,
                 serviceVars, commandVars>>

\* The store invalidates a session that was not renewed for its TTL.
SessionExpire(c) ==
  /\ SessionLive(c)
  /\ age[c] >= session_ttl[1]
  /\ SessionDestroyed(session[c][1])
  /\ UNCHANGED <<localVars, faults, tampered, opSteps, counterVars, restVars>>

\* ------------------------------------------------------------ lockedCommand

\* The child process that the current call of run_command_with_ttl_refresh starts.
Child(c) == <<c, calls[c]>>

\* Line 166 has run in the current call of f.
Started(c) == p[c] = Some(Child(c))

\* Line 166: f starts the shell command.
Popen(c) ==
  /\ pc[c] = "f"
  /\ ~Started(c)
  /\ p' = [p EXCEPT ![c] = Some(Child(c))]
  /\ running' = running \cup {Child(c)}
  /\ UNCHANGED <<storeVars, localVars, faults, tampered, opSteps, counterVars, valueVars,
                 serviceVars, timeVars>>

\* Lines 167-174: communicate finds that the child has exited, and f returns.
CommandFinished(c) ==
  /\ Started(c)
  /\ Child(c) \notin running
  /\ FReturn(c)

\* Lines 169-173: communicate times out, the child still running, and f renews the
\* session; renewing a session the store no longer has is an error of the store.
CommandStillRunning(c) ==
  /\ pc[c] = "f"
  /\ Started(c)
  /\ Child(c) \in running
  /\ IF SessionLive(c)
       THEN /\ age' = [age EXCEPT ![c] = 0]
            /\ UNCHANGED <<pc, exc, fexc>>
       ELSE /\ pc' = [pc EXCEPT ![c] = AfterFRaise]
            /\ exc' = [exc EXCEPT ![c] = "ConsulException"]
            /\ fexc' = [fexc EXCEPT ![c] = "ConsulException"]
            /\ UNCHANGED age
  /\ UNCHANGED <<storeVars, session, data, acquired_index, attempts, calls, faults, tampered,
                 opSteps, counterVars, valueVars, serviceVars, waited, commandVars>>

\* Line 173: the renew fails with a transient error, which leaves f.
RenewRaise(c, e) ==
  /\ Started(c)
  /\ Child(c) \in running
  /\ FRaise(c, e)

\* A shell command exits.
ChildExit(ch) ==
  /\ ch \in running
  /\ running' = running \ {ch}
  /\ UNCHANGED <<storeVars, localVars, faults, tampered, opSteps, counterVars, valueVars,
                 serviceVars, timeVars, p>>

\* --------------------------------------------------------- counterIncrement

\* The characters of the stored values the model draws from.
DigitChars == <<"0", "1", "2", "3", "4", "5", "6", "7", "8", "9">>

IsDigit(ch) == \E i \in 1..10 : DigitChars[i] = ch

DigitOf(ch) == (CHOOSE i \in 1..10 : DigitChars[i] = ch) - 1

\* str(n), line 250.
RECURSIVE NatToStr(_)
NatToStr(n) ==
  IF n < 10 THEN <<DigitChars[n + 1]>>
  ELSE NatToStr(n \div 10) \o <<DigitChars[(n % 10) + 1]>>

IntToStr(n) == IF n < 0 THEN <<"-">> \o NatToStr(-n) ELSE NatToStr(n)

\* int(value), line 244: surrounding whitespace is dropped, then an optional sign,
\* then one or more decimal digits; None stands for ValueError.
RECURSIVE LStrip(_)
LStrip(s) == IF s # <<>> /\ Head(s) = " " THEN LStrip(Tail(s)) ELSE s

RECURSIVE RStrip(_)
RStrip(s) == IF s # <<>> /\ s[Len(s)] = " " THEN RStrip(SubSeq(s, 1, Len(s) - 1)) ELSE s

RECURSIVE DigitsToNat(_, _)
DigitsToNat(s, acc) ==
  IF s = <<>> THEN acc ELSE DigitsToNat(Tail(s), 10 * acc + DigitOf(Head(s)))

AllDigits(s) == s # <<>> /\ \A i \in 1..Len(s) : IsDigit(s[i])

StrToInt(v) ==
  LET s == RStrip(LStrip(v))
      signed == s # <<>> /\ Head(s) \in {"+", "-"}
      digits == IF signed THEN Tail(s) ELSE s
  IN IF ~AllDigits(digits) THEN None
     ELSE IF signed /\ Head(s) = "-" THEN Some(-DigitsToNat(digits, 0))
     ELSE Some(DigitsToNat(digits, 0))

\* put(key, value, cas=i): i = 0 creates the key only if it does not exist; otherwise
\* the put succeeds only if the record's ModifyIndex is i.
PutCasMatches(key, i) ==
  IF kv[key] = None THEN i = 0 ELSE i # 0 /\ kv[key][1].ModifyIndex = i

\* IntegerToPut without the increment.
IntegerToPutSameValue(v) == StrToInt(v)[1]

\* Line 244: the integer to put when the key holds value v.
IntegerToPut(v) == StrToInt(v)[1] + 1

\* data['Value'], lines 216 and 244: the stored bytes, or None for a record whose value
\* is empty (the store reports it as null, and the client decodes only what is not null).
ValueOf(d) == IF d[1].Value = <<>> THEN None ELSE Some(d[1].Value)

\* Lines 235-246: one read; the key is missing, holds an integer, or holds
\* something else, which ends the call: with sys.exit, or with the TypeError of
\* int(None) when the value is empty.
CGet(c) ==
  /\ cpc[c] = "get"
  /\ tries' = [tries EXCEPT ![c] = @ + 1]
  /\ LET i == KvGet(counterKey)[1]
         d == KvGet(counterKey)[2]
     IN IF d = None
          THEN /\ integer_to_put' = [integer_to_put EXCEPT ![c] = 1]
               /\ cas_index' = [cas_index EXCEPT ![c] = 0]
               /\ cpc' = [cpc EXCEPT ![c] = "put"]
               /\ UNCHANGED cexc
          ELSE IF StrToInt(d[1].Value) = None
            THEN /\ cpc' = [cpc EXCEPT ![c] = "raised"]
                 /\ cexc' = [cexc EXCEPT ![c] =
                               IF ValueOf(d) = None THEN "TypeError" ELSE "SystemExit"]
                 /\ UNCHANGED <<integer_to_put, cas_index>>
            ELSE /\ integer_to_put' = [integer_to_put EXCEPT ![c] = IntegerToPut(d[1].Value)]
                 /\ cas_index' = [cas_index EXCEPT ![c] = i]
                 /\ cpc' = [cpc EXCEPT ![c] = "put"]
                 /\ UNCHANGED cexc
  /\ UNCHANGED <<storeVars, localVars, faults, tampered, opSteps, restVars>>

\* Lines 250-252, and the loop condition of line 234.
CPut(c) ==
  /\ cpc[c] = "put"
  /\ IF PutCasMatches(counterKey, cas_index[c])
       THEN /\ kv' = KvAfterPut(counterKey, IntToStr(integer_to_put[c]), plainFlags,
                                IF kv[counterKey] = None THEN None
                                ELSE kv[counterKey][1].Session)
            /\ raftIndex' = raftIndex + 1
            /\ cpc' = [cpc EXCEPT ![c] = "done"]
       ELSE /\ UNCHANGED <<kv, raftIndex>>
            /\ cpc' = [cpc EXCEPT ![c] = "get"]
  /\ UNCHANGED <<sessions, localVars, faults, tampered, opSteps, integer_to_put, cas_index,
                 cexc, tries, restVars>>

\* The get of line 235 or the put of line 250 fails with a transient error (the call
\* has no effect): counterIncrement has no handler, the exception ends the call.
CStoreError(c, e) ==
  /\ cpc[c] \in {"get", "put"}
  /\ MayDisturb
  /\ faults' = faults + 1
  /\ cpc' = [cpc EXCEPT ![c] = "raised"]
  /\ cexc' = [cexc EXCEPT ![c] = e]
  /\ UNCHANGED <<storeVars, localVars, tampered, opSteps, integer_to_put, cas_index, tries,
                 restVars>>

\* ----------------------------------------------------------- waitUntilValue

\* str.encode('utf-8') of one code point below 2048: one byte, or two.
Utf8(cp) == IF cp < 128 THEN <<cp>> ELSE <<192 + (cp \div 64), 128 + (cp % 64)>>

\* str.encode('utf-8'), line 200, of a string given as its code points.
RECURSIVE Encode(_)
Encode(s) == IF s = <<>> THEN <<>> ELSE Utf8(Head(s)) \o Encode(Tail(s))

\* Line 200: the target is the encoded --value, or None when no --value is given.
TargetValue(v) == IF v = None THEN None ELSE Some(Encode(v[1]))

\* Lines 211-219: what follows a get that returned d. A value that is not bytes fails
\* the assertion of line 217, which nothing catches.
AfterValueGet(d, target) ==
  IF d = None THEN "get"
  ELSE IF target = None THEN "returned"
  ELSE IF ValueOf(d) = None THEN "raised"
  ELSE IF ValueOf(d) = target THEN "returned"
  ELSE "sleep"

\* get(key, index=i) returns at once when i is None, and otherwise once the key's index
\* has passed i.
GetReturns(key, i) == IF i = None THEN TRUE ELSE KvGet(key)[1] > i[1]

\* Lines 207-219: the get returns the key's index and record, and the call decides.
ValueRead ==
  /\ wpc = "get"
  /\ index' = Some(KvGet(waitKey)[1])
  /\ reads' = reads + 1
  /\ wpc' = AfterValueGet(KvGet(waitKey)[2], target_value)
  /\ UNCHANGED <<storeVars, localVars, tampered, counterVars, target_value, serviceVars, timeVars,
                 commandVars>>

\* Line 207: the get returns because the key is past `index` (or `index` is None).
WaitGet ==
  /\ GetReturns(waitKey, index)
  /\ ValueRead
  /\ UNCHANGED <<faults, opSteps>>

\* Line 207: the get returns because the store's wait time ran out, nothing changed.
WaitGetTimedOut ==
  /\ ~GetReturns(waitKey, index)
  /\ MayDisturb
  /\ faults' = faults + 1
  /\ ValueRead
  /\ UNCHANGED opSteps

\* Line 224.
WaitSleep ==
  /\ wpc = "sleep"
  /\ wpc' = "get"
  /\ UNCHANGED <<storeVars, localVars, faults, tampered, opSteps, counterVars, target_value,
                 index, reads, serviceVars, timeVars, commandVars>>

\* Lines 220-223: the get fails with a transient error; `index` keeps its value.
WaitStoreError(e) ==
  /\ wpc = "get"
  /\ MayDisturb
  /\ faults' = faults + 1
  /\ wpc' = "sleep"
  /\ UNCHANGED <<storeVars, localVars, tampered, opSteps, counterVars, target_value,
                 index, reads, serviceVars, timeVars, commandVars>>

\* Another process writes value b to the key waitUntilValue waits on.
WriterPut(b) ==
  /\ MayDisturb
  /\ opSteps' = opSteps + 1
  /\ kv' = KvAfterPut(waitKey, b, plainFlags, None)
  /\ raftIndex' = raftIndex + 1
  /\ UNCHANGED <<sessions, localVars, faults, tampered, counterVars, restVars>>

\* Another process deletes the key.
WriterDelete ==
  /\ MayDisturb
  /\ kv[waitKey] # None
  /\ opSteps' = opSteps + 1
  /\ kv' = [kv EXCEPT ![waitKey] = None]
  /\ raftIndex' = raftIndex + 1
  /\ UNCHANGED <<sessions, localVars, faults, tampered, counterVars, restVars>>

\* --------------------------------------------------------- waitUntilService

\* max(l + [0]), line 274, of a list given as the set of its elements.
MaxWithZero(S) == CHOOSE x \in S \cup {0} : \A y \in S \cup {0} : y <= x

\* health.service(service, passing=True): the instances all of whose checks pass, by node.
PassingNodes ==
  {n \in Nodes : checks[n] # <<>> /\ \A k \in 1..Len(checks[n]) : checks[n][k].Status = "passing"}

\* Lines 270-271: the instances on the node asked for, or all of them.
FilterNodes(nodes, nd) == IF nd = None THEN nodes ELSE {n \in nodes : n = nd[1]}

\* Line 274.
MaxCheckModifyIndex(nodes) ==
  MaxWithZero(UNION {{checks[n][k].ModifyIndex : k \in 1..Len(checks[n])} : n \in nodes})

\* Lines 275-276: the read is not reported, the call waits for the next one.
WaitsForNextIndex(max_check_modify_index, last) ==
  last = 0 \/ max_check_modify_index <= last

\* Lines 277-278.
LastAfterRead(max_check_modify_index, last) ==
  IF last = 0 THEN max_check_modify_index ELSE last

\* Lines 273-283: what follows a read that returned `nodes` (after the filter).
AfterServiceRead(nodes, gate, last) ==
  IF gate /\ WaitsForNextIndex(MaxCheckModifyIndex(nodes), last) THEN "get"
  ELSE IF nodes # {} THEN "returned"
  ELSE "get"

\* health.service(index=i) returns at once when i is None, and otherwise once the
\* store's index has passed i.
ServiceReturns(i) == IF i = None THEN TRUE ELSE raftIndex > i[1]

\* Lines 268-283: the read returns the store's index and the passing instances.
ServiceRead ==
  /\ spc = "get"
  /\ LET nodes == FilterNodes(PassingNodes, node) IN
       /\ spc' = AfterServiceRead(nodes, wait_for_index_change, last_max_check_modify_index)
       /\ last_max_check_modify_index' =
            IF wait_for_index_change
              THEN LastAfterRead(MaxCheckModifyIndex(nodes), last_max_check_modify_index)
              ELSE last_max_check_modify_index
       /\ first_max' = IF sreads = 0 THEN Some(MaxCheckModifyIndex(nodes)) ELSE first_max
  /\ sindex' = Some(raftIndex)
  /\ sreads' = sreads + 1
  /\ UNCHANGED <<storeVars, localVars, tampered, counterVars, valueVars,
                 wait_for_index_change, node, checks, timeVars, commandVars>>

\* Line 268: the read returns because the store is past `index` (or `index` is None).
ServiceGet ==
  /\ ServiceReturns(sindex)
  /\ ServiceRead
  /\ UNCHANGED <<faults, opSteps>>

\* Line 268: the read returns because the store's wait time ran out.
ServiceGetTimedOut ==
  /\ ~ServiceReturns(sindex)
  /\ MayDisturb
  /\ faults' = faults + 1
  /\ ServiceRead
  /\ UNCHANGED opSteps

\* Line 288, then line 265 of the next round.
ServiceSleep ==
  /\ spc = "sleep"
  /\ spc' = "get"
  /\ sindex' = None
  /\ UNCHANGED <<storeVars, localVars, faults, tampered, opSteps, counterVars, valueVars,
                 wait_for_index_change, node, last_max_check_modify_index, checks, sreads,
                 first_max, timeVars, commandVars>>

\* Lines 284-287: the read fails with a transient error.
ServiceStoreError(e) ==
  /\ spc = "get"
  /\ MayDisturb
  /\ faults' = faults + 1
  /\ spc' = "sleep"
  /\ UNCHANGED <<storeVars, localVars, tampered, opSteps, counterVars, valueVars,
                 wait_for_index_change, node, last_max_check_modify_index, sindex, checks,
                 sreads, first_max, timeVars, commandVars>>

\* Check k of the instance on node n changes its status, at a new index of the store.
CheckUpdate(n, k) ==
  /\ MayDisturb
  /\ checks[n] # <<>>
  /\ opSteps' = opSteps + 1
  /\ raftIndex' = raftIndex + 1
  /\ checks' = [checks EXCEPT ![n][k] =
                  [Status |-> IF @.Status = "passing" THEN "critical" ELSE "passing",
                   ModifyIndex |-> raftIndex + 1]]
  /\ UNCHANGED <<kv, sessions, localVars, faults, tampered, counterVars, valueVars, spc,
                 wait_for_index_change, node, last_max_check_modify_index, sindex, sreads,
                 first_max, timeVars, commandVars>>

\* ---------------------------------------------------------- external actor

\* Lines 128-130: "an operator or health check forcefully took it away from us". The
\* external actor deletes the lock key, re-creates it with a plain put, or invalidates
\* the session that holds it (the store then releases the key).

\* The clients that have acquired the lock and not yet run their release step.
Holding == {c \in Clients : pc[c] \in {"get_acquired_index", "f", "delete"}}

Tamper ==
  /\ MayDisturb
  /\ opSteps' = opSteps + 1
  /\ tampered' = [c \in Clients |-> tampered[c] \/ c \in Holding]
  /\ UNCHANGED <<localVars, faults, counterVars, restVars>>

OpDelete ==
  /\ kv[lockKey] # None
  /\ kv' = [kv EXCEPT ![lockKey] = None]
  /\ raftIndex' = raftIndex + 1
  /\ UNCHANGED sessions
  /\ Tamper

OpPut(flags) ==
  /\ kv[lockKey] = None
  /\ kv' = KvAfterPut(lockKey, <<"op">>, flags, None)
  /\ raftIndex' = raftIndex + 1
  /\ UNCHANGED sessions
  /\ Tamper

OpInvalidate ==
  /\ kv[lockKey] # None
  /\ kv[lockKey][1].Session # None
  /\ SessionDestroyed(kv[lockKey][1].Session[1])
  /\ Tamper

\* ------------------------------------------------------------------- specs

\* What the lock key may hold before the first call: nothing, or a record some other
\* use of the key wrote.
InitialRecords ==
  {None,
   Some([Value |-> <<"other">>, Flags |-> plainFlags, Session |-> None, ModifyIndex |-> 1])}

\* The clients' locals before their calls start.
InitLocals ==
  /\ raftIndex = 1
  /\ sessions = {}
  /\ pc = [c \in Clients |-> "create"]
  /\ session = [c \in Clients |-> None]
  /\ data = [c \in Clients |-> None]
  /\ acquired_index = [c \in Clients |-> None]
  /\ exc = [c \in Clients |-> "none"]
  /\ fexc = [c \in Clients |-> "none"]
  /\ attempts = [c \in Clients |-> 0]
  /\ calls = [c \in Clients |-> 0]
  /\ faults = 0
  /\ tampered = [c \in Clients |-> FALSE]
  /\ opSteps = 0
  /\ cpc = [c \in Clients |-> "get"]
  /\ integer_to_put = [c \in Clients |-> 1]
  /\ cas_index = [c \in Clients |-> 0]
  /\ cexc = [c \in Clients |-> "none"]
  /\ tries = [c \in Clients |-> 0]
  /\ wpc = "get"
  /\ index = None
  /\ reads = 0
  /\ spc = "get"
  /\ last_max_check_modify_index = 0
  /\ sindex = None
  /\ sreads = 0
  /\ first_max = None
  /\ age = [c \in Clients |-> 0]
  /\ waited = [c \in Clients |-> 0]
  /\ p = [c \in Clients |-> None]
  /\ running = {}

\* No call of waitUntilService, and no instance of its service.
NoService ==
  /\ wait_for_index_change = FALSE
  /\ node = None
  /\ checks = [n \in Nodes |-> <<>>]

\* The clients call locked_action on a key whose lock key holds r.
Init ==
  /\ \E r \in InitialRecords : kv = [k \in Keys |-> IF k = lockKey THEN r ELSE None]
  /\ InitLocals
  /\ target_value = None
  /\ NoService

Next ==
  \E c \in Clients :
    \/ Create(c)
    \/ Get(c)
    \/ Renew(c)
    \/ Put(c)
    \/ GetAcquiredIndex(c)
    \/ FReturn(c)
    \/ \E e \in FErrors : FRaise(c, e)
    \/ Delete(c)
    \/ Destroy(c)
    \/ FinallyDestroy(c)
    \/ Sleep(c)
    \/ \E e \in StoreErrors : StoreError(c, e)
    \/ Terminate(c)

Spec == Init /\ [][Next]_vars

\* The clients together with the external actor.
NextOp ==
  \/ Next
  \/ OpDelete
  \/ \E flags \in {lockFlagValue, plainFlags} : OpPut(flags)
  \/ OpInvalidate

SpecOp == Init /\ [][NextOp]_vars

\* What the counter key may hold before the first call: nothing, an integer as a
\* string in any form int() accepts, or something else.
InitialCounterValues ==
  {<<"0">>, <<"1">>, <<"9">>, <<"0", "7">>, <<"-", "1">>, <<"+", "2">>, <<" ", "3", " ">>,
   <<"x">>, <<"1", "x">>, <<"-">>, <<>>}

InitialCounterRecords ==
  {None} \cup {Some([Value |-> v, Flags |-> plainFlags, Session |-> None, ModifyIndex |-> 1]) :
                 v \in InitialCounterValues}

\* The clients call counterIncrement on a key that holds r.
InitCounter ==
  /\ \E r \in InitialCounterRecords : kv = [k \in Keys |-> IF k = counterKey THEN r ELSE None]
  /\ InitLocals
  /\ target_value = None
  /\ NoService

NextCounter ==
  \E c \in Clients :
    \/ CGet(c)
    \/ CPut(c)

\* Every client is a process of its own and keeps running.
CounterFairness == \A c \in Clients : WF_vars(CGet(c) \/ CPut(c))

SpecCounter == InitCounter /\ [][NextCounter]_vars /\ CounterFairness

\* The calls with transient errors of their store calls.
NextCounterErr ==
  \/ NextCounter
  \/ \E c \in Clients : \E e \in StoreErrors : CStoreError(c, e)

SpecCounterErr == InitCounter /\ [][NextCounterErr]_vars /\ CounterFairness

\* The --value arguments of waitUntilValue: none, the empty string, "a", and U+00E9.
ArgValues == {None, Some(<<>>), Some(<<97>>), Some(<<233>>)}

\* The values the waited key may hold, as bytes.
StoredValues == {<<>>, <<97>>, <<233>>, <<195, 169>>}

InitialValueRecords ==
  {None} \cup {Some([Value |-> b, Flags |-> plainFlags, Session |-> None, ModifyIndex |-> 1]) :
                 b \in StoredValues}

\* One call of waitUntilValue with --value v on a key that holds r.
InitWait ==
  /\ \E r \in InitialValueRecords : kv = [k \in Keys |-> IF k = waitKey THEN r ELSE None]
  /\ InitLocals
  /\ \E v \in ArgValues : target_value = TargetValue(v)
  /\ NoService

NextWait ==
  \/ WaitGet
  \/ WaitGetTimedOut
  \/ WaitSleep
  \/ \E e \in StoreErrors : WaitStoreError(e)
  \/ \E b \in StoredValues : WriterPut(b)
  \/ WriterDelete

\* The process keeps running: a get that can return does, and the sleep ends.
WaitFairness == WF_vars(WaitGet) /\ WF_vars(WaitSleep)

SpecWait == InitWait /\ [][NextWait]_vars /\ WaitFairness

\* The checks of one instance: the node's check and the service's, each passing or not.
InitialChecks ==
  {<<[Status |-> a, ModifyIndex |-> 1], [Status |-> b, ModifyIndex |-> 1]>> :
     a \in {"passing", "critical"}, b \in {"passing", "critical"}}

\* One call of waitUntilService, with or without --wait-for-index-change and --node.
InitService ==
  /\ kv = [k \in Keys |-> None]
  /\ InitLocals
  /\ target_value = None
  /\ wait_for_index_change \in BOOLEAN
  /\ node \in {None, Some("n1")}
  /\ checks \in [Nodes -> InitialChecks]

NextService ==
  \/ ServiceGet
  \/ ServiceGetTimedOut
  \/ ServiceSleep
  \/ \E e \in StoreErrors : ServiceStoreError(e)
  \/ \E n \in Nodes : \E k \in 1..2 : CheckUpdate(n, k)

SpecService == InitService /\ [][NextService]_vars

\* The calls of locked_action with the time their steps take and the store's expiry
\* of sessions, the store answering every call.
NextTimed ==
  \/ \E c \in Clients :
       \/ Create(c)
       \/ Get(c)
       \/ Renew(c)
       \/ Put(c)
       \/ GetAcquiredIndex(c)
       \/ FReturn(c)
       \/ Delete(c)
       \/ Destroy(c)
       \/ FinallyDestroy(c)
       \/ SessionExpire(c)
  \/ Tick

SpecTimed == Init /\ [][NextTimed]_vars

\* The processes of this scenario that run lockedCommand; the others run
\* counterIncrement (line 340 dispatches one command per process).
LockCallers == {1}

\* A call of locked_action, with the external actor, next to calls of counterIncrement,
\* the store answering every call.
InitFatal ==
  /\ \E r \in InitialRecords, v \in InitialCounterRecords :
       kv = [k \in Keys |-> IF k = lockKey THEN r ELSE IF k = counterKey THEN v ELSE None]
  /\ InitLocals
  /\ target_value = None
  /\ NoService

NextFatal ==
  \/ \E c \in LockCallers :
       \/ Create(c)
       \/ Get(c)
       \/ Renew(c)
       \/ Put(c)
       \/ GetAcquiredIndex(c)
       \/ FReturn(c)
       \/ Delete(c)
       \/ Destroy(c)
       \/ FinallyDestroy(c)
  \/ OpDelete
  \/ \E flags \in {lockFlagValue, plainFlags} : OpPut(flags)
  \/ OpInvalidate
  \/ \E c \in Clients \ LockCallers :
       \/ CGet(c)
       \/ CPut(c)

SpecFatal == InitFatal /\ [][NextFatal]_vars

\* The calls of lockedCommand: locked_action with f = run_command_with_ttl_refresh.
NextCommand ==
  \/ \E c \in Clients :
       \/ Create(c)
       \/ Get(c)
       \/ Renew(c)
       \/ Put(c)
       \/ GetAcquiredIndex(c)
       \/ Popen(c)
       \/ CommandFinished(c)
       \/ CommandStillRunning(c)
       \/ \E e \in StoreErrors : RenewRaise(c, e)
       \/ Delete(c)
       \/ Destroy(c)
       \/ FinallyDestroy(c)
       \/ Sleep(c)
       \/ Terminate(c)
  \/ \E ch \in running : ChildExit(ch)

SpecCommand == Init /\ [][NextCommand]_vars

\* The steps of client c's call of locked_action when the store answers its calls and
\* f returns.
Step(c) ==
  \/ Create(c)
  \/ Get(c)
  \/ Renew(c)
  \/ Put(c)
  \/ GetAcquiredIndex(c)
  \/ FReturn(c)
  \/ Delete(c)
  \/ Destroy(c)
  \/ FinallyDestroy(c)
  \/ Sleep(c)

\* The calls with actions that return and store calls that may fail transiently.
NextLive ==
  \E c \in Clients :
    \/ Step(c)
    \/ \E e \in StoreErrors : StoreError(c, e)

\* Every client is a process of its own and keeps running; f terminates.
LockFairness == \A c \in Clients : WF_vars(Step(c))

SpecLive == Init /\ [][NextLive]_vars /\ LockFairness

\* ------------------------------------------------------------------ claims

\* The clients executing the action body f.
InBody == {c \in Clients : pc[c] = "f"}

\* The live sessions that client c created.
OwnLive(c) == {s \in sessions : s[1] = c}

\* The lock key holds a record that is not a lock record.
MisusedKey == kv[lockKey] # None /\ kv[lockKey][1].Flags # lockFlagValue

\* C1. Mutual exclusion: with no external actor and no session invalidated, at most
\* one client executes its action body f at a time, whatever the interleaving of the
\* clients' store calls, transient errors, errors of f and termination signals.
C1_MutualExclusion == Cardinality(InBody) <= 1

\* A client runs f while another one, whose acquiring put was refused, waits.
C1_Witness ==
  \E c, d \in Clients :
    /\ pc[c] = "f"
    /\ pc[d] = "get"
    /\ data[d] # None
    /\ ~data[d][1].HasSession

\* C2. Stolen-lock detection: a call whose lock key was touched by the external actor
\* (deleted, re-created, or released by invalidating its session) at any moment after
\* its acquiring put and before its release step never returns normally.
C2_StolenLockDetected == \A c \in Clients : pc[c] = "returned" => ~tampered[c]

\* C3. Safe release: a release step that deletes the lock record deletes a record that
\* its own call wrote and that no session but its own holds, never one that another
\* holder created or acquired.
C3_SafeRelease ==
  [][\A c \in Clients :
       (pc[c] = "delete" /\ pc'[c] = "destroy")
         => /\ kv[lockKey][1].Value = <<"host", c>>
            /\ kv[lockKey][1].Session \in {None, session[c]}]_vars

\* A record written by locked_action carries lockFlagValue; and while the lock key
\* holds a record with other flags no client has written or deleted it (the store's
\* index has not moved) and no client is past its flag check.
C4_NoWriteOnMisuse ==
  /\ kv[lockKey] # None /\ kv[lockKey][1].Value[1] = "host"
       => kv[lockKey][1].Flags = lockFlagValue
  /\ MisusedKey
       => /\ raftIndex = 1
          /\ kv[lockKey][1].ModifyIndex = 1
          /\ \A c \in Clients :
               pc[c] \notin {"put", "get_acquired_index", "f", "delete", "destroy", "returned"}

\* A call in which the fatal error of line 97 is in flight only unwinds and fails.
C4_FatalNotRetried ==
  \A c \in Clients :
    (pc[c] = "finally_destroy" /\ exc[c] = "Exception")
      => pc'[c] \in {"finally_destroy", "raised"}

\* C4. Flag compatibility: every put of locked_action on the lock key carries
\* lockFlagValue; while the lock key holds a record with other flags no call issues a
\* put or a delete on it, so the record stays as it is; and a call that detected the
\* mismatch fails without being retried.
C4_FlagCompatibility == [] C4_NoWriteOnMisuse /\ [][C4_FatalNotRetried]_vars

\* A call has failed with the flag mismatch, the misused record still in place.
C4_Witness ==
  \E c \in Clients : pc[c] = "raised" /\ exc[c] = "Exception" /\ MisusedKey

\* C5. Release after a failing action: when, after f raised, the call reaches the
\* session destroy of line 138, its session is still live and no longer holds the lock
\* key, which is gone (the CAS delete came first); and once the error of f has
\* propagated to the caller the call's sessions are destroyed and the lock key is gone
\* or was re-created by another call since: the lock is free for the next acquirer.
C5_ReleaseAfterFailure ==
  \A c \in Clients :
    /\ (pc[c] = "destroy" /\ fexc[c] # "none")
         => /\ session[c][1] \in sessions
            /\ HeldBy(session[c][1]) = {}
            /\ \/ kv[lockKey] = None
               \/ kv[lockKey][1].Value # <<"host", c>>
    /\ (pc[c] = "raised" /\ exc[c] = "ActionError")
         => /\ OwnLive(c) = {}
            /\ \/ kv[lockKey] = None
               \/ kv[lockKey][1].Value # <<"host", c>>

\* The error of f has propagated and another call has acquired the lock afterwards.
C5_Witness ==
  \E c, d \in Clients :
    /\ pc[c] = "raised"
    /\ exc[c] = "ActionError"
    /\ pc[d] = "f"

\* C6. Session cleanup: a call owns at most one live session, none while it sleeps
\* before a retry or is about to create the next one, and none after it has exited.
C6_SessionCleanup ==
  \A c \in Clients :
    /\ Cardinality(OwnLive(c)) <= 1
    /\ pc[c] \in {"sleep", "create", "returned", "raised"} => OwnLive(c) = {}

\* C7. A transient store error of a store call of locked_action is never what the
\* call raises to its caller.
C7_TransientNeverSurfaced == \A c \in Clients : pc[c] = "raised" => exc[c] \notin StoreErrors

\* C8. Once f has raised, the call only runs its release step and raises to the
\* caller: it does not go on to sleep and retry.
C8_ActionErrorPropagates ==
  \A c \in Clients :
    fexc[c] # "none" => pc[c] \in {"delete", "destroy", "finally_destroy", "raised"}

\* The integer the counter key holds: 0 while the key is missing.
CounterValue ==
  IF kv[counterKey] = None THEN 0
  ELSE IF StrToInt(kv[counterKey][1].Value) = None THEN 0
  ELSE StrToInt(kv[counterKey][1].Value)[1]

CounterDone == {c \in Clients : cpc[c] = "done"}

\* A step raises the stored integer by exactly the number of calls completing in it.
C9_ExactlyOnce == CounterValue' = CounterValue + Cardinality(CounterDone' \ CounterDone)

\* All calls have completed and the key holds str(NumClients).
C9_AllDoneWithN ==
  /\ CounterDone = Clients
  /\ kv[counterKey] # None
  /\ kv[counterKey][1].Value = IntToStr(NumClients)

\* C9. Counter under contention: every completed call raises the stored integer by
\* exactly 1 (no increment is lost or applied twice), and NumClients concurrent calls
\* on a missing key all complete and leave exactly str(NumClients), in every fair
\* interleaving of their gets and CAS puts, failed and retried CAS puts included.
C9_CounterUnderContention ==
  /\ [][C9_ExactlyOnce]_vars
  /\ (kv[counterKey] = None) => <>[]C9_AllDoneWithN

\* All calls on a missing key have completed, one of them after a failed CAS put.
C9_Witness == C9_AllDoneWithN /\ \E c \in Clients : tries[c] > 1

\* C10. A transient store error of the get or of the CAS put of counterIncrement is
\* never what ends the call.
C10_CounterTransientRetried ==
  \A c \in Clients : cpc[c] = "raised" => cexc[c] \notin StoreErrors

\* The waited key holds what the call waits for: any record when there is no target,
\* and otherwise a record whose bytes are the target's.
ValueMatches ==
  /\ kv[waitKey] # None
  /\ target_value = None \/ kv[waitKey][1].Value = target_value[1]

\* C11. Value-wait boundary: waitUntilValue ends, by returning or by failing, only on
\* a read that finds the key present and, when a target is given, holding exactly the
\* target's bytes; and a read that finds that, the first one included, makes it return.
C11_ValueWaitBoundary ==
  [][/\ (wpc = "get" /\ wpc' \in {"returned", "raised"}) => ValueMatches
     /\ (wpc = "get" /\ reads' # reads /\ ValueMatches) => wpc' = "returned"]_vars

\* C16. Forward progress of the value wait: if from some moment on the waited key
\* holds what the call waits for, the call eventually returns, whatever the interleaving
\* of its blocking gets with the writers' updates and with transient store errors.
C16_ValueWaitProgress == <>[]ValueMatches => <>(wpc = "returned")

\* The passing instances a read would return now, and their largest check index.
NodesNow == FilterNodes(PassingNodes, node)

MaxNow == MaxCheckModifyIndex(NodesNow)

\* C12. Service-wait index gate: with wait_for_index_change the first read never makes
\* the call return, and a later read makes it return exactly when its filtered list of
\* passing instances is not empty and its largest check index exceeds the one of the
\* very first read (0 when that read returned no passing instance); without the option a
\* read makes the call return exactly when its filtered list is not empty.
C12_ServiceIndexGate ==
  [][(spc = "get" /\ sreads' # sreads) =>
       (spc' = "returned") =
         IF ~wait_for_index_change THEN NodesNow # {}
         ELSE sreads > 0 /\ NodesNow # {} /\ MaxNow > first_max[1]]_vars

\* C14. With wait_for_index_change, once the first read has returned,
\* last_max_check_modify_index is the largest check index of that read and stays so for
\* the rest of the call.
C14_BaselineLatchedOnce ==
  (wait_for_index_change /\ sreads >= 1) => last_max_check_modify_index = first_max[1]

\* The lock key holds the record client c wrote when it acquired the lock.
OwnRecord(c) == kv[lockKey] # None /\ kv[lockKey][1].Value = <<"host", c>>

\* C13. Cancellation: when a call has exited on a termination signal, wherever the
\* signal arrived, its session is destroyed and the lock record it wrote, if it held the
\* lock, has been deleted.
C13_Cancellation ==
  \A c \in Clients :
    (pc[c] = "raised" /\ exc[c] = "SystemExit") => (OwnLive(c) = {} /\ ~OwnRecord(c))

\* The clients in the acquisition loop of lines 85-103.
Acquiring == {c \in Clients : pc[c] \in {"get", "renew", "put"}}

\* A client in the acquisition loop has a live session renewed less than a TTL ago.
C15_SessionFresh == \A c \in Acquiring : SessionLive(c) /\ age[c] < session_ttl[1]

\* A blocking get that returns is followed by the renew, and the acquiring put and the
\* next blocking get follow a renew (or the creation of the session).
C15_RenewAfterGet ==
  \A c \in Clients :
    /\ (pc[c] = "get" /\ pc'[c] # "get" /\ faults' = faults) => pc'[c] = "renew"
    /\ (pc[c] # "put" /\ pc'[c] = "put") => pc[c] = "renew"
    /\ (pc[c] # "get" /\ pc'[c] = "get") => pc[c] \in {"renew", "put", "create"}

\* C15. Session keep-alive while acquiring: with a TTL set, the blocking get waits less
\* than the TTL and is followed by a renew before the next get or the acquiring put, so
\* that (store calls other than the blocking get taking no time) less than one TTL
\* passes between renewals and the session does not expire in the acquisition loop.
C15_KeepAlive == [] C15_SessionFresh /\ [][C15_RenewAfterGet]_vars

\* A blocking get has used up its wait time while another client holds the lock.
C15_Witness ==
  \E c, d \in Clients :
    /\ pc[c] = "get"
    /\ waited[c] = WaitSeconds(session_ttl)
    /\ age[c] = WaitSeconds(session_ttl)
    /\ pc[d] = "f"

\* The counter key holds a value that is not an integer.
NotAnInteger == kv[counterKey] # None /\ StrToInt(kv[counterKey][1].Value) = None

\* A read of counterIncrement that finds a value that is not an integer ends the call
\* and writes nothing; a call of locked_action in which the error of line 97 or of line
\* 136 is in flight creates no further session and only unwinds and fails.
C17_FatalStep ==
  \A c \in Clients :
    /\ (cpc[c] = "get" /\ tries'[c] # tries[c] /\ NotAnInteger)
         => (cpc'[c] = "raised" /\ kv' = kv)
    /\ cpc[c] = "raised" => cpc'[c] = "raised"
    /\ exc[c] = "Exception"
         => (pc'[c] \in {"finally_destroy", "raised"} /\ attempts'[c] = attempts[c])

\* A call of counterIncrement that failed issued no put: the record is the one it read.
C17_NoPutOnFailure ==
  (\E c \in Clients : cpc[c] = "raised")
    => (NotAnInteger /\ kv[counterKey][1].ModifyIndex = 1 /\ \A c \in Clients : cpc[c] # "put")

\* C17. Fatal errors are not retried and do not write: counterIncrement on a present
\* value that is not an integer fails without a put, the record unchanged; and
\* locked_action on a flag mismatch or a failed CAS release raises the error out of its
\* retry loop without another acquisition attempt.
C17_FatalNotRetried == [] C17_NoPutOnFailure /\ [][C17_FatalStep]_vars

\* A call of counterIncrement has failed on a value that is not an integer, and a call
\* of locked_action on a failed CAS release.
C17_Witness ==
  /\ \E c \in Clients : cpc[c] = "raised" /\ cexc[c] = "SystemExit"
  /\ \E c \in Clients : pc[c] = "raised" /\ exc[c] = "Exception" /\ tampered[c]

\* C18. One call of locked_action invokes its action f at most once, also when a
\* store call fails transiently during the action or during the release step after it.
C18_ActionAtMostOnce == \A c \in Clients : calls[c] <= 1

\* C19. In lockedCommand a shell command runs only while the call that started it is
\* in f, holding the lock: when f is left, on any of its exit paths, the child has
\* exited; so no two wrapped commands for the same key run at the same time.
C19_CommandOnlyUnderLock ==
  /\ \A ch \in running : pc[ch[1]] = "f" /\ calls[ch[1]] = ch[2]
  /\ Cardinality(running) <= 1

\* C20. Lock liveness: when the clients each call locked_action once on a key that
\* is free, with actions that return and store calls that fail only finitely often,
\* then under fair scheduling every call eventually acquires the lock, runs its action
\* and returns.
C20_LockLiveness ==
  (kv[lockKey] = None) => <>(\A c \in Clients : pc[c] = "returned" /\ calls[c] >= 1)

====
